---- MODULE Spec2Model ----
(***************************************************************************)
(* A model of the user CRUD service of crud-grpc-v1: the credential codec  *)
(* (generateToken and the jwt/v5 verification it is read back with), the   *)
(* unary AuthInterceptor, and the six handlers of the record service over  *)
(* the users table.                                                        *)
(*                                                                         *)
(* Strings the code inspects byte by byte (the role claim, the credential  *)
(* string with its optional "Bearer " prefix) are sequences of one-letter  *)
(* strings; strings the code only stores and compares whole (names,        *)
(* emails, passwords) are plain strings.                                   *)
(***************************************************************************)
EXTENDS Integers, Sequences, FiniteSets, TLC

VARIABLES
    users,   \* the rows of table users
    seq,     \* the last value handed out by the id sequence of the table
    now,     \* the wall clock, in ticks
    held,    \* the token the caller holds (the last one issued), or NoJwt
    issue,   \* what generateToken was called with to make held, or NoIssue
    last,    \* the call that returned at this instant: the request and what
             \* the caller got back, or NoCall
    calls,   \* the calls in flight, one per serving goroutine: whether its
             \* handler has yet to issue its statement or has returned
    createdOnly  \* history: the emails CreateUser gave to a row and Register
                 \* has not been called with successfully since

vars == <<users, seq, now, held, issue, last, calls, createdOnly>>

(***************************************************************************)
(* Bounds of the model.                                                    *)
(***************************************************************************)
\* clock ticks per second: the clock is finer than the second the expiry
\* claim is rounded to
TicksPerSecond == 2
\* the clock instants explored: up to MaxSkew ticks after the start, and up
\* to MaxSkew ticks after the end of the validity window of a token issued at
\* the start
MaxSkew == 1
\* the id sequence of the table hands out at most MaxSeq ids
MaxSeq == 2

(***************************************************************************)
(* Letters and byte strings.                                               *)
(***************************************************************************)
UpperCase == <<"A","B","C","D","E","F","G","H","I","J","K","L","M",
               "N","O","P","Q","R","S","T","U","V","W","X","Y","Z">>
LowerCase == <<"a","b","c","d","e","f","g","h","i","j","k","l","m",
               "n","o","p","q","r","s","t","u","v","w","x","y","z">>

UpperLetters == {UpperCase[i] : i \in 1..Len(UpperCase)}
LowerLetters == {LowerCase[i] : i \in 1..Len(LowerCase)}

\* unicode.ToLower and unicode.ToUpper on the letters A-Z, a-z
LowerOf == [c \in UpperLetters |-> LowerCase[CHOOSE i \in 1..Len(UpperCase) : UpperCase[i] = c]]
UpperOf == [c \in LowerLetters |-> UpperCase[CHOOSE i \in 1..Len(LowerCase) : LowerCase[i] = c]]

ToLower_Identity(s) == s

\* strings.ToLower
ToLower(s) ==
    [i \in 1..Len(s) |-> IF s[i] \in UpperLetters THEN LowerOf[s[i]] ELSE s[i]]

\* strings.ToUpper
ToUpper(s) ==
    [i \in 1..Len(s) |-> IF s[i] \in LowerLetters THEN UpperOf[s[i]] ELSE s[i]]

S_admin  == <<"a","d","m","i","n">>
S_Admin  == <<"A","d","m","i","n">>
S_user   == <<"u","s","e","r">>
S_empty  == <<>>
S_Bearer == <<"B","e","a","r","e","r"," ">>
S_bearer == <<"b","e","a","r","e","r"," ">>
S_BEARER == <<"B","E","A","R","E","R"," ">>

(***************************************************************************)
(* Time.                                                                   *)
(***************************************************************************)
Second == TicksPerSecond
Hour == 3600 * Second
\* jwt.TimePrecision, time.Second unless the program changes it (it does not)
TimePrecision == Second

\* time.Time.Truncate
Truncate(t, d) == t - (t % d)

\* jwt.NewNumericDate: the instant, truncated to TimePrecision
NewNumericDate(t) == Truncate(t, TimePrecision)

\* 24 * time.Hour
TokenTTL == 24 * Hour

\* the clock instants the model visits
Instants == (0..MaxSkew) \cup (TokenTTL..(TokenTTL + MaxSkew))

(***************************************************************************)
(* The credential codec.  A token is the compact serialisation of          *)
(* header.claims.signature; its signature is the HMAC of the first two     *)
(* parts, a value that only the key and the signed text determine.         *)
(***************************************************************************)
jwtKey == "my_secret_key"
otherKey == "not_the_server_key"

NoJwt == [alg |-> "-"]
NoIssue == [email |-> "-"]
NoClaims == [email |-> "", role |-> S_empty, exp |-> 0]

\* Token.SigningString: the header and the claims, as serialised
SigningString(tok) == <<tok.alg, tok.claims>>

\* SigningMethodHMAC.Sign
HMAC(key, msg) == [key |-> key, msg |-> msg]

\* jwt.NewWithClaims followed by Token.SignedString
SignedString(alg, claims, key) ==
    [alg |-> alg, claims |-> claims, sig |-> HMAC(key, <<alg, claims>>)]

generateToken_DropRole(email, role, t) ==
    SignedString("HS256",
        [email |-> email, role |-> S_empty, exp |-> NewNumericDate(t + TokenTTL)], jwtKey)

\* generateToken(email, role) called at instant t
generateToken(email, role, t) ==
    LET expirationTime == t + TokenTTL
        claims == [email |-> email, role |-> role,
                   exp |-> NewNumericDate(expirationTime)]
    IN  SignedString("HS256", claims, jwtKey)

(***************************************************************************)
(* Credential strings: some letters followed, or not, by the serialisation *)
(* of a token.  Every token serialisation starts with the base64url text   *)
(* of {"alg" and is longer than 7 bytes.                                   *)
(***************************************************************************)
JwtLead == <<"e","y","J","h","b","G","c","i">>

Str(pre, jwt) == [pre |-> pre, jwt |-> jwt]

\* the leading bytes the model knows of a credential string
LeadBytes(s) == s.pre \o (IF s.jwt = NoJwt THEN <<>> ELSE JwtLead)

\* len(s) > n, for n below the length of JwtLead
LenGT(s, n) == Len(LeadBytes(s)) > n

\* s[0:n]
Head_(s, n) == SubSeq(LeadBytes(s), 1, n)

\* s[n:]; cutting into the token serialisation leaves text that is no token
Drop(s, n) ==
    IF Len(s.pre) >= n
    THEN Str(SubSeq(s.pre, n + 1, Len(s.pre)), s.jwt)
    ELSE Str(<<"?">>, NoJwt)

\* the prefix recognised in one letter case only
StripBearer_ExactCase(tokenString) ==
    IF LenGT(tokenString, 7) /\ Head_(tokenString, 7) = S_Bearer
    THEN Drop(tokenString, 7)
    ELSE tokenString

\* interceptor.go: the optional "Bearer " prefix
StripBearer(tokenString) ==
    IF LenGT(tokenString, 7) /\ ToUpper(Head_(tokenString, 7)) = S_BEARER
    THEN Drop(tokenString, 7)
    ELSE tokenString

VerifyExpiresAt_Inclusive(exp, t) == t <= exp

\* Validator.verifyExpiresAt: now.Before(exp), no leeway
VerifyExpiresAt(exp, t) == t < exp

VerifySignature_AnyKey(tok, key) ==
    /\ tok.alg = "HS256"
    /\ tok.sig.msg = SigningString(tok)

\* SigningMethodHMAC.Verify with the key the keyfunc returns; the method
\* "none" refuses a byte-string key
VerifySignature(tok, key) ==
    /\ tok.alg = "HS256"
    /\ tok.sig = HMAC(key, SigningString(tok))

Parsed(valid, err, claims) == [valid |-> valid, err |-> err, claims |-> claims]

\* jwt.ParseWithClaims(tokenString, claims, keyfunc) at instant t
ParseWithClaims(tokenString, key, t) ==
    IF tokenString.pre # <<>> \/ tokenString.jwt = NoJwt
    THEN Parsed(FALSE, "token is malformed", NoClaims)
    ELSE LET tok == tokenString.jwt IN
         IF ~VerifySignature(tok, key)
         THEN Parsed(FALSE, "signature is invalid", NoClaims)
         ELSE IF ~VerifyExpiresAt(tok.claims.exp, t)
         THEN Parsed(FALSE, "token is expired", tok.claims)
         ELSE Parsed(TRUE, "", tok.claims)

(***************************************************************************)
(* The interceptor.                                                        *)
(***************************************************************************)
M_Login      == "/user.UserService/Login"
M_Register   == "/user.UserService/Register"
M_CreateUser == "/user.UserService/CreateUser"
M_UpdateUser == "/user.UserService/UpdateUser"
M_DeleteUser == "/user.UserService/DeleteUser"
M_GetUser    == "/user.UserService/GetUser"
\* a method of neither set (the service registers none; the interceptor
\* takes any method name)
M_Other      == "/grpc.health.v1.Health/Check"

publicMethods_LoginOnly == {M_Login}

publicMethods == {M_Login, M_Register}

adminMethods == {M_CreateUser, M_UpdateUser, M_DeleteUser, M_GetUser}

\* metadata.FromIncomingContext: ok, and the values under each key
NoMD == [ok |-> FALSE, authorization |-> <<>>]
MD(values) == [ok |-> TRUE, authorization |-> values]

Forward == [forward |-> TRUE, code |-> "OK", msg |-> ""]
Reject(code, msg) == [forward |-> FALSE, code |-> code, msg |-> msg]

AuthInterceptor_NoRoleCheck(FullMethod, md, t) ==
    IF FullMethod \in publicMethods THEN Forward
    ELSE IF ~md.ok THEN Reject("Unauthenticated", "metadata missing")
    ELSE IF Len(md.authorization) = 0 THEN Reject("Unauthenticated", "token missing")
    ELSE IF ~ParseWithClaims(StripBearer(md.authorization[1]), jwtKey, t).valid
         THEN Reject("Unauthenticated", "invalid token")
         ELSE Forward

AuthInterceptor_NoTokenOk(FullMethod, md, t) ==
    IF FullMethod \in publicMethods THEN Forward
    ELSE IF ~md.ok THEN Reject("Unauthenticated", "metadata missing")
    ELSE IF Len(md.authorization) = 0 THEN Forward
    ELSE LET p == ParseWithClaims(StripBearer(md.authorization[1]), jwtKey, t) IN
         IF ~p.valid THEN Reject("Unauthenticated", "invalid token")
         ELSE IF FullMethod \in adminMethods /\ ToLower(p.claims.role) # S_admin
         THEN Reject("PermissionDenied", "Access Denied: You are not an admin")
         ELSE Forward

AuthInterceptor_AdminEverywhere(FullMethod, md, t) ==
    IF FullMethod \in publicMethods THEN Forward
    ELSE IF ~md.ok THEN Reject("Unauthenticated", "metadata missing")
    ELSE IF Len(md.authorization) = 0 THEN Reject("Unauthenticated", "token missing")
    ELSE LET p == ParseWithClaims(StripBearer(md.authorization[1]), jwtKey, t) IN
         IF ~p.valid THEN Reject("Unauthenticated", "invalid token")
         ELSE IF ToLower(p.claims.role) # S_admin
         THEN Reject("PermissionDenied", "Access Denied: You are not an admin")
         ELSE Forward

AuthInterceptor_StoreRole(FullMethod, md, t) ==
    IF FullMethod \in publicMethods THEN Forward
    ELSE IF ~md.ok THEN Reject("Unauthenticated", "metadata missing")
    ELSE IF Len(md.authorization) = 0 THEN Reject("Unauthenticated", "token missing")
    ELSE LET p == ParseWithClaims(StripBearer(md.authorization[1]), jwtKey, t) IN
         IF ~p.valid THEN Reject("Unauthenticated", "invalid token")
         ELSE IF /\ FullMethod \in adminMethods
                 /\ ~\E r \in users : r.email = p.claims.email /\ ToLower(r.role) = S_admin
         THEN Reject("PermissionDenied", "Access Denied: You are not an admin")
         ELSE Forward

\* a token refused once the table has no row for its email
AuthInterceptor_RowRequired(FullMethod, md, t) ==
    IF FullMethod \in publicMethods THEN Forward
    ELSE IF ~md.ok THEN Reject("Unauthenticated", "metadata missing")
    ELSE IF Len(md.authorization) = 0 THEN Reject("Unauthenticated", "token missing")
    ELSE LET p == ParseWithClaims(StripBearer(md.authorization[1]), jwtKey, t) IN
         IF ~p.valid \/ ~\E r \in users : r.email = p.claims.email
         THEN Reject("Unauthenticated", "invalid token")
         ELSE IF FullMethod \in adminMethods /\ ToLower(p.claims.role) # S_admin
         THEN Reject("PermissionDenied", "Access Denied: You are not an admin")
         ELSE Forward

\* an empty first value counted as no value
AuthInterceptor_EmptyValueMissing(FullMethod, md, t) ==
    IF FullMethod \in publicMethods THEN Forward
    ELSE IF ~md.ok THEN Reject("Unauthenticated", "metadata missing")
    ELSE IF Len(md.authorization) = 0 \/ md.authorization[1] = Str(<<>>, NoJwt)
         THEN Reject("Unauthenticated", "token missing")
    ELSE LET p == ParseWithClaims(StripBearer(md.authorization[1]), jwtKey, t) IN
         IF ~p.valid THEN Reject("Unauthenticated", "invalid token")
         ELSE IF FullMethod \in adminMethods /\ ToLower(p.claims.role) # S_admin
         THEN Reject("PermissionDenied", "Access Denied: You are not an admin")
         ELSE Forward

\* the role test placed before the test of the verification result, on the
\* role the token names
AuthInterceptor_RoleFirst(FullMethod, md, t) ==
    IF FullMethod \in publicMethods THEN Forward
    ELSE IF ~md.ok THEN Reject("Unauthenticated", "metadata missing")
    ELSE IF Len(md.authorization) = 0 THEN Reject("Unauthenticated", "token missing")
    ELSE LET tokenString == StripBearer(md.authorization[1])
             p == ParseWithClaims(tokenString, jwtKey, t)
             named == IF tokenString.jwt = NoJwt THEN S_empty
                      ELSE tokenString.jwt.claims.role
         IN  IF FullMethod \in adminMethods /\ ToLower(named) # S_admin
             THEN Reject("PermissionDenied", "Access Denied: You are not an admin")
             ELSE IF ~p.valid THEN Reject("Unauthenticated", "invalid token")
             ELSE Forward

\* AuthInterceptor, up to the call of the handler: whether the call is
\* forwarded, and otherwise the status returned
AuthInterceptor(FullMethod, md, t) ==
    IF FullMethod \in publicMethods THEN Forward
    ELSE IF ~md.ok THEN Reject("Unauthenticated", "metadata missing")
    ELSE IF Len(md.authorization) = 0 THEN Reject("Unauthenticated", "token missing")
    ELSE LET tokenString == StripBearer(md.authorization[1])
             p == ParseWithClaims(tokenString, jwtKey, t)
         IN  IF ~p.valid THEN Reject("Unauthenticated", "invalid token")
             ELSE IF FullMethod \in adminMethods /\ ToLower(p.claims.role) # S_admin
             THEN Reject("PermissionDenied", "Access Denied: You are not an admin")
             ELSE Forward

(***************************************************************************)
(* The record store: table users(id SERIAL PRIMARY KEY, name, email        *)
(* UNIQUE, password, role).  A statement either fails as a whole or takes  *)
(* effect as a whole.                                                      *)
(***************************************************************************)
Names     == {"Ann", "Bob"}
Emails    == {"a@x.com", "b@x.com"}
\* the passwords accounts are registered with, and those logins try
RegisterPasswords == {"pw1"}
Passwords == {"pw1", "pw2"}
\* the role field of a request
ReqRoles  == {S_empty, S_Admin}
\* the ids a request may name: each is unassigned, assigned or deleted,
\* depending on the state
Ids       == 1..MaxSeq

NULL == [null |-> TRUE]

\* hashPassword: a digest that only the plaintext determines
hashPassword(password) == [digest |-> password]

\* checkPassword(password, hash)
checkPassword(password, hash) == hash = hashPassword(password)

Row(id, name, email, password, role) ==
    [id |-> id, name |-> name, email |-> email, password |-> password, role |-> role]

DbOk(rows, s) == [err |-> "", users |-> rows, seq |-> s]
DbErr(e, rows, s) == [err |-> e, users |-> rows, seq |-> s]

E_conn == "connection refused"
E_dup  == "duplicate key value violates unique constraint"
E_norows == "sql: no rows in result set"
E_scan == "sql: Scan error: converting NULL to string is unsupported"

\* the id taken as one more than the number of rows, not from the sequence
Insert_ReuseId(name, email, password, role, up) ==
    IF ~up THEN DbErr(E_conn, users, seq)
    ELSE IF \E r \in users : r.email = email
    THEN DbErr(E_dup, users, seq + 1)
    ELSE DbOk(users \cup {Row(Cardinality(users) + 1, name, email, password, role)},
              seq + 1)

Insert_NoUnique(name, email, password, role, up) ==
    IF ~up THEN DbErr(E_conn, users, seq)
    ELSE DbOk(users \cup {Row(seq + 1, name, email, password, role)}, seq + 1)

\* INSERT INTO users(...) VALUES(...) RETURNING id: the default of id draws
\* the next value of the sequence before the unique index is checked, so a
\* refused row uses up an id
Insert(name, email, password, role, up) ==
    IF ~up THEN DbErr(E_conn, users, seq)
    ELSE IF \E r \in users : r.email = email
    THEN DbErr(E_dup, users, seq + 1)
    ELSE DbOk(users \cup {Row(seq + 1, name, email, password, role)}, seq + 1)

\* the UPDATE that writes the name alone
Update_NameOnly(id, name, email, up) ==
    IF ~up THEN DbErr(E_conn, users, seq)
    ELSE DbOk({IF r.id = id THEN [r EXCEPT !.name = name] ELSE r : r \in users}, seq)

\* the UPDATE that also resets the role
Update_ClearsRole(id, name, email, up) ==
    IF ~up THEN DbErr(E_conn, users, seq)
    ELSE IF \E r \in users : r.id = id /\ \E o \in users : o.id # id /\ o.email = email
    THEN DbErr(E_dup, users, seq)
    ELSE DbOk({IF r.id = id
               THEN [r EXCEPT !.name = name, !.email = email, !.role = S_empty]
               ELSE r : r \in users}, seq)

\* UPDATE users SET name=$1, email=$2 WHERE id=$3
Update(id, name, email, up) ==
    IF ~up THEN DbErr(E_conn, users, seq)
    ELSE IF \E r \in users : r.id = id /\ \E o \in users : o.id # id /\ o.email = email
    THEN DbErr(E_dup, users, seq)
    ELSE DbOk({IF r.id = id THEN [r EXCEPT !.name = name, !.email = email] ELSE r
               : r \in users}, seq)

\* the DELETE without its WHERE clause
Delete_NoWhere(id, up) ==
    IF ~up THEN DbErr(E_conn, users, seq)
    ELSE DbOk({}, seq)

\* DELETE FROM users WHERE id=$1
Delete(id, up) ==
    IF ~up THEN DbErr(E_conn, users, seq)
    ELSE DbOk({r \in users : r.id # id}, seq)

(***************************************************************************)
(* The handlers.  Each yields the status, the response and the store it    *)
(* leaves; Login also yields the token it issues.                          *)
(***************************************************************************)
NoResp == [kind |-> "none"]
UserResp(id, name, email, role) ==
    [kind |-> "user", id |-> id, name |-> name, email |-> email, role |-> role]
TokenResp(token) == [kind |-> "token", token |-> token]
MessageResp(m) == [kind |-> "message", message |-> m]

Out(code, msg, resp, db) ==
    [code |-> code, msg |-> msg, resp |-> resp, users |-> db.users, seq |-> db.seq]

Register_NoDefaultRole(req, up) ==
    LET db == Insert(req.name, req.email, hashPassword(req.password), req.role, up)
    IN  IF db.err # ""
        THEN Out("Internal", <<"cannot create user: ", db.err>>, NoResp, db)
        ELSE Out("OK", <<>>, UserResp(db.seq, req.name, req.email, req.role), db)

\* every account registered with the role "user"
Register_AlwaysUser(req, up) ==
    LET db == Insert(req.name, req.email, hashPassword(req.password), S_user, up)
    IN  IF db.err # ""
        THEN Out("Internal", <<"cannot create user: ", db.err>>, NoResp, db)
        ELSE Out("OK", <<>>, UserResp(db.seq, req.name, req.email, S_user), db)

\* server.Register
Register(req, up) ==
    LET hashedPwd == hashPassword(req.password)
        userRole == IF req.role = S_empty THEN S_user ELSE req.role
        db == Insert(req.name, req.email, hashedPwd, userRole, up)
    IN  IF db.err # ""
        THEN Out("Internal", <<"cannot create user: ", db.err>>, NoResp, db)
        ELSE Out("OK", <<>>, UserResp(db.seq, req.name, req.email, userRole), db)

\* the lookup that selects the password alone, so that no role reaches the
\* token
Login_NoRole(req, up, t) ==
    LET found == {r \in users : r.email = req.email}
        err == IF ~up THEN E_conn
               ELSE IF found = {} THEN E_norows
               ELSE IF \E r \in found : r.password = NULL THEN E_scan
               ELSE ""
        db == DbOk(users, seq)
    IN  IF err # ""
        THEN Out("Unauthenticated", <<"user not found">>, NoResp, db)
        ELSE LET r == CHOOSE r \in found : TRUE IN
             IF ~checkPassword(req.password, r.password)
             THEN Out("Unauthenticated", <<"incorrect password">>, NoResp, db)
             ELSE Out("OK", <<>>, TokenResp(generateToken(req.email, S_empty, t)), db)

\* the lookup that tells a store that failed from an email without a row
Login_InternalOnStoreError(req, up, t) ==
    LET found == {r \in users : r.email = req.email}
        db == DbOk(users, seq)
    IN  IF ~up THEN Out("Internal", <<"cannot look up user: ", E_conn>>, NoResp, db)
        ELSE IF found = {} \/ \E r \in found : r.password = NULL
        THEN Out("Unauthenticated", <<"user not found">>, NoResp, db)
        ELSE LET r == CHOOSE r \in found : TRUE IN
             IF ~checkPassword(req.password, r.password)
             THEN Out("Unauthenticated", <<"incorrect password">>, NoResp, db)
             ELSE Out("OK", <<>>, TokenResp(generateToken(req.email, r.role, t)), db)

\* a row without a digest taken for a row whose digest matches
Login_NullDigestMatches(req, up, t) ==
    LET found == {r \in users : r.email = req.email}
        db == DbOk(users, seq)
    IN  IF ~up \/ found = {}
        THEN Out("Unauthenticated", <<"user not found">>, NoResp, db)
        ELSE LET r == CHOOSE r \in found : TRUE IN
             IF r.password # NULL /\ ~checkPassword(req.password, r.password)
             THEN Out("Unauthenticated", <<"incorrect password">>, NoResp, db)
             ELSE Out("OK", <<>>, TokenResp(generateToken(req.email, r.role, t)), db)

\* server.Login at instant t
Login(req, up, t) ==
    LET found == {r \in users : r.email = req.email}
        err == IF ~up THEN E_conn
               ELSE IF found = {} THEN E_norows
               ELSE IF \E r \in found : r.password = NULL THEN E_scan
               ELSE ""
        db == DbOk(users, seq)
    IN  IF err # ""
        THEN Out("Unauthenticated", <<"user not found">>, NoResp, db)
        ELSE LET r == CHOOSE r \in found : TRUE IN
             IF ~checkPassword(req.password, r.password)
             THEN Out("Unauthenticated", <<"incorrect password">>, NoResp, db)
             ELSE Out("OK", <<>>, TokenResp(generateToken(req.email, r.role, t)), db)

\* a text column without a value
NullText == <<"(null)">>

\* the INSERT without the role column, as it is without the password column
CreateUser_NoRole(req, up) ==
    LET db == Insert(req.name, req.email, NULL, NullText, up)
    IN  IF db.err # ""
        THEN Out("Internal", <<"failed to create user: ", db.err>>, NoResp, db)
        ELSE Out("OK", <<>>, UserResp(db.seq, req.name, req.email, req.role), db)

\* server.CreateUser
CreateUser(req, up) ==
    LET db == Insert(req.name, req.email, NULL, req.role, up)
    IN  IF db.err # ""
        THEN Out("Internal", <<"failed to create user: ", db.err>>, NoResp, db)
        ELSE Out("OK", <<>>, UserResp(db.seq, req.name, req.email, req.role), db)

\* the lookup without the sql.ErrNoRows case
GetUser_NoRowsRaw(req, up) ==
    LET found == {r \in users : r.id = req.id}
        db == DbOk(users, seq)
    IN  IF ~up THEN Out("Unknown", <<E_conn>>, NoResp, db)
        ELSE IF found = {} THEN Out("Unknown", <<E_norows>>, NoResp, db)
        ELSE LET r == CHOOSE r \in found : TRUE IN
             Out("OK", <<>>, UserResp(r.id, r.name, r.email, r.role), db)

\* server.GetUser
GetUser(req, up) ==
    LET found == {r \in users : r.id = req.id}
        db == DbOk(users, seq)
    IN  IF ~up THEN Out("Unknown", <<E_conn>>, NoResp, db)
        ELSE IF found = {} THEN Out("NotFound", <<"user not found">>, NoResp, db)
        ELSE LET r == CHOOSE r \in found : TRUE IN
             Out("OK", <<>>, UserResp(r.id, r.name, r.email, r.role), db)

\* the update that reports a statement which touched no row
UpdateUser_CheckRows(req, up) ==
    LET db == Update(req.id, req.name, req.email, up)
    IN  IF db.err # ""
        THEN Out("Unknown", <<db.err>>, NoResp, db)
        ELSE IF ~\E r \in users : r.id = req.id
        THEN Out("NotFound", <<"user not found">>, NoResp, db)
        ELSE Out("OK", <<>>, UserResp(req.id, req.name, req.email, S_empty), db)

\* server.UpdateUser
UpdateUser(req, up) ==
    LET db == Update(req.id, req.name, req.email, up)
    IN  IF db.err # ""
        THEN Out("Unknown", <<db.err>>, NoResp, db)
        ELSE Out("OK", <<>>, UserResp(req.id, req.name, req.email, S_empty), db)

\* server.DeleteUser
\* the DELETE that reports a row that is not there
DeleteUser_NotFound(req, up) ==
    LET db == Delete(req.id, up)
    IN  IF db.err # ""
        THEN Out("Unknown", <<db.err>>, NoResp, db)
        ELSE IF ~\E r \in users : r.id = req.id
        THEN Out("NotFound", <<"user not found">>, NoResp, db)
        ELSE Out("OK", <<>>, MessageResp("User deleted"), db)

DeleteUser(req, up) ==
    LET db == Delete(req.id, up)
    IN  IF db.err # ""
        THEN Out("Unknown", <<db.err>>, NoResp, db)
        ELSE Out("OK", <<>>, MessageResp("User deleted"), db)

(***************************************************************************)
(* What a caller can present.  It holds at most the token of the last      *)
(* Login; it does not know jwtKey, so any other token it presents is       *)
(* signed with another key, is unsigned, or is a held token with a claim   *)
(* altered under the old signature.                                        *)
(***************************************************************************)
Bare(tok) == Str(<<>>, tok)

WithClaims(tok, claims) == [tok EXCEPT !.claims = claims]

\* the held token with its role, its email or its expiry altered
Altered(tok) ==
    {WithClaims(tok, [tok.claims EXCEPT !.role = S_admin]),
     WithClaims(tok, [tok.claims EXCEPT !.role = S_user]),
     WithClaims(tok, [tok.claims EXCEPT !.email = "root@x.com"]),
     WithClaims(tok, [tok.claims EXCEPT !.exp = tok.claims.exp + TokenTTL])} \ {tok}

\* the claims of the held token signed with another key, or not signed
Forged(tok) ==
    {SignedString("HS256", tok.claims, otherKey),
     [alg |-> "none", claims |-> tok.claims, sig |-> <<>>]}

Credentials(tok) ==
    {Str(<<>>, NoJwt), Str(<<"x">>, NoJwt), Str(S_Bearer, NoJwt)}
    \cup (IF tok = NoJwt THEN {}
          ELSE {Bare(tok), Str(S_Bearer, tok), Str(S_bearer, tok)}
               \cup {Bare(a) : a \in Altered(tok)}
               \cup {Bare(f) : f \in Forged(tok)})

Metadata(tok) == {NoMD, MD(<<>>)} \cup {MD(<<c>>) : c \in Credentials(tok)}

\* what a caller of the service sends: the token it holds, behind the usual
\* prefix, or no credential when it holds none
ServiceMetadata(tok) ==
    IF tok = NoJwt THEN {MD(<<>>)} ELSE {MD(<<Str(S_Bearer, tok)>>)}

(***************************************************************************)
(* The service: one action per remote procedure, the interceptor first     *)
(* and the handler behind it.                                              *)
(***************************************************************************)
NoCall == [method |-> "-"]

\* grpc-go serves every call on a goroutine of its own
Goroutines == {"g1", "g2", "g3"}
Idle == [pc |-> "idle"]
NoReq == [none |-> TRUE]

Called(method, md, req, handled, code, msg, resp) ==
    [method |-> method, md |-> md, req |-> req, handled |-> handled,
     code |-> code, msg |-> msg, resp |-> resp]

\* the interceptor returned the status d without calling the handler, whatever
\* the request held
Rejected(method, md, d) ==
    /\ last' = Called(method, md, NoReq, FALSE, d.code, <<d.msg>>, NoResp)
    /\ UNCHANGED <<users, seq, now, held, issue, calls, createdOnly>>

\* the handler ran and returned out
Returns(method, md, req, out) ==
    /\ last' = Called(method, md, req, TRUE, out.code, out.msg, out.resp)
    /\ users' = out.users
    /\ seq' = out.seq
    /\ UNCHANGED <<now, calls>>

Handled(method, md, req, out) ==
    /\ Returns(method, md, req, out)
    /\ UNCHANGED createdOnly

\* the same, with the history of the emails kept
Tracked(method, md, req, out) ==
    /\ Returns(method, md, req, out)
    /\ createdOnly' =
          IF out.code # "OK" THEN createdOnly
          ELSE IF method = M_CreateUser THEN createdOnly \cup {req.email}
          ELSE IF method = M_Register THEN createdOnly \ {req.email}
          ELSE createdOnly

Init ==
    /\ users = {}
    /\ seq = 0
    /\ now = 0
    /\ held = NoJwt
    /\ issue = NoIssue
    /\ last = NoCall
    /\ calls = [g \in Goroutines |-> Idle]
    /\ createdOnly = {}

RegisterCall ==
    \E md \in ServiceMetadata(held) :
        LET d == AuthInterceptor(M_Register, md, now) IN
        IF d.forward
        THEN \E name \in Names, email \in Emails, password \in RegisterPasswords,
                role \in ReqRoles, up \in BOOLEAN :
                LET req == [name |-> name, email |-> email,
                            password |-> password, role |-> role]
                IN  /\ seq < MaxSeq
                    /\ Handled(M_Register, md, req, Register(req, up))
                    /\ UNCHANGED <<held, issue>>
        ELSE Rejected(M_Register, md, d)

LoginCall ==
    \E md \in ServiceMetadata(held) :
        LET d == AuthInterceptor(M_Login, md, now) IN
        IF d.forward
        THEN \E email \in Emails, password \in Passwords, up \in BOOLEAN :
                LET req == [email |-> email, password |-> password]
                    out == Login(req, up, now)
                IN  /\ Handled(M_Login, md, req, out)
                    /\ IF out.code = "OK"
                       THEN /\ held' = out.resp.token
                            /\ issue' = [email |-> req.email,
                                         role |-> out.resp.token.claims.role,
                                         at |-> now]
                       ELSE UNCHANGED <<held, issue>>
        ELSE Rejected(M_Login, md, d)

CreateUserCall ==
    \E md \in ServiceMetadata(held) :
        LET d == AuthInterceptor(M_CreateUser, md, now) IN
        IF d.forward
        THEN \E name \in Names, email \in Emails, role \in ReqRoles, up \in BOOLEAN :
                LET req == [name |-> name, email |-> email, role |-> role]
                IN  /\ seq < MaxSeq
                    /\ Handled(M_CreateUser, md, req, CreateUser(req, up))
                    /\ UNCHANGED <<held, issue>>
        ELSE Rejected(M_CreateUser, md, d)

GetUserCall ==
    \E md \in ServiceMetadata(held) :
        LET d == AuthInterceptor(M_GetUser, md, now) IN
        IF d.forward
        THEN \E id \in Ids, up \in BOOLEAN :
                LET req == [id |-> id]
                IN  /\ Handled(M_GetUser, md, req, GetUser(req, up))
                    /\ UNCHANGED <<held, issue>>
        ELSE Rejected(M_GetUser, md, d)

UpdateUserCall ==
    \E md \in ServiceMetadata(held) :
        LET d == AuthInterceptor(M_UpdateUser, md, now) IN
        IF d.forward
        THEN \E id \in Ids, name \in Names, email \in Emails, up \in BOOLEAN :
                LET req == [id |-> id, name |-> name, email |-> email]
                IN  /\ Handled(M_UpdateUser, md, req, UpdateUser(req, up))
                    /\ UNCHANGED <<held, issue>>
        ELSE Rejected(M_UpdateUser, md, d)

DeleteUserCall ==
    \E md \in ServiceMetadata(held) :
        LET d == AuthInterceptor(M_DeleteUser, md, now) IN
        IF d.forward
        THEN \E id \in Ids, up \in BOOLEAN :
                LET req == [id |-> id]
                IN  /\ Handled(M_DeleteUser, md, req, DeleteUser(req, up))
                    /\ UNCHANGED <<held, issue>>
        ELSE Rejected(M_DeleteUser, md, d)

\* the clock moves on
Tick ==
    /\ \E t \in Instants : t > now /\ now' = t
    /\ last' = NoCall
    /\ UNCHANGED <<users, seq, held, issue, calls, createdOnly>>

Next ==
    \/ RegisterCall
    \/ LoginCall
    \/ CreateUserCall
    \/ GetUserCall
    \/ UpdateUserCall
    \/ DeleteUserCall
    \/ Tick

Spec == Init /\ [][Next]_vars

(***************************************************************************)
(* The interceptor and the codec on their own: tokens of any role are      *)
(* issued, and the interceptor is called with every method and every       *)
(* metadata a caller can build from the token issued, in front of a        *)
(* handler that does nothing but return.                                   *)
(***************************************************************************)
Methods == {M_Login, M_Register, M_CreateUser, M_GetUser, M_UpdateUser, M_DeleteUser,
            M_Other}
TokenRoles == {S_empty, S_user, S_admin, S_Admin}

\* generateToken is called at this instant
AuthIssue ==
    \E email \in Emails, role \in TokenRoles :
        /\ held' = generateToken(email, role, now)
        /\ issue' = [email |-> email, role |-> role, at |-> now]
        /\ last' = NoCall
        /\ UNCHANGED <<users, seq, now, calls, createdOnly>>

\* the context handed on with verified claims stored in it
HandlerArgs_InjectsClaims(md, req) ==
    [ctx |-> [ok |-> md.ok, authorization |-> md.authorization, claims |-> "verified"],
     req |-> req]

\* interceptor.go: handler(ctx, req), the context and the request that
\* AuthInterceptor was called with
HandlerArgs(md, req) == [ctx |-> md, req |-> req]

\* the handler in front of which the interceptor stands here: it answers
\* with what it was called with
Received(args) == [kind |-> "received", ctx |-> args.ctx, req |-> args.req]

\* AuthInterceptor(ctx, req, info, handler) is called at this instant
AuthCall ==
    \E method \in Methods, md \in Metadata(held) :
        LET d == AuthInterceptor(method, md, now) IN
        /\ last' = Called(method, md, NoReq, d.forward, d.code, <<d.msg>>,
                          IF d.forward THEN Received(HandlerArgs(md, NoReq))
                          ELSE NoResp)
        /\ UNCHANGED <<users, seq, now, held, issue, calls, createdOnly>>

NextAuth ==
    \/ AuthIssue
    \/ AuthCall
    \/ Tick

SpecAuth == Init /\ [][NextAuth]_vars

(***************************************************************************)
(* The handlers on their own: the six methods of server, called as the     *)
(* generated service calls them once the interceptor has forwarded a call. *)
(* The handlers read no metadata, so none is recorded.                     *)
(***************************************************************************)
RegisterHandler ==
    \E name \in Names, email \in Emails, password \in RegisterPasswords,
       role \in ReqRoles, up \in BOOLEAN :
        LET req == [name |-> name, email |-> email,
                    password |-> password, role |-> role]
        IN  /\ seq < MaxSeq
            /\ Handled(M_Register, NoMD, req, Register(req, up))
            /\ UNCHANGED <<held, issue>>

LoginHandler ==
    \E email \in Emails, password \in Passwords, up \in BOOLEAN :
        LET req == [email |-> email, password |-> password]
            out == Login(req, up, now)
        IN  /\ Handled(M_Login, NoMD, req, out)
            /\ IF out.code = "OK"
               THEN /\ held' = out.resp.token
                    /\ issue' = [email |-> req.email,
                                 role |-> out.resp.token.claims.role,
                                 at |-> now]
               ELSE UNCHANGED <<held, issue>>

CreateUserHandler ==
    \E name \in Names, email \in Emails, role \in ReqRoles, up \in BOOLEAN :
        LET req == [name |-> name, email |-> email, role |-> role]
        IN  /\ seq < MaxSeq
            /\ Handled(M_CreateUser, NoMD, req, CreateUser(req, up))
            /\ UNCHANGED <<held, issue>>

GetUserHandler ==
    \E id \in Ids, up \in BOOLEAN :
        LET req == [id |-> id]
        IN  /\ Handled(M_GetUser, NoMD, req, GetUser(req, up))
            /\ UNCHANGED <<held, issue>>

UpdateUserHandler ==
    \E id \in Ids, name \in Names, email \in Emails, up \in BOOLEAN :
        LET req == [id |-> id, name |-> name, email |-> email]
        IN  /\ Handled(M_UpdateUser, NoMD, req, UpdateUser(req, up))
            /\ UNCHANGED <<held, issue>>

DeleteUserHandler ==
    \E id \in Ids, up \in BOOLEAN :
        LET req == [id |-> id]
        IN  /\ Handled(M_DeleteUser, NoMD, req, DeleteUser(req, up))
            /\ UNCHANGED <<held, issue>>

NextHandlers ==
    \/ RegisterHandler
    \/ LoginHandler
    \/ CreateUserHandler
    \/ GetUserHandler
    \/ UpdateUserHandler
    \/ DeleteUserHandler

SpecHandlers == Init /\ [][NextHandlers]_vars

\* the handlers that read and write rows, without the one that issues
\* tokens
NextRecords ==
    \/ RegisterHandler
    \/ CreateUserHandler
    \/ GetUserHandler
    \/ UpdateUserHandler
    \/ DeleteUserHandler

SpecRecords == Init /\ [][NextRecords]_vars

(***************************************************************************)
(* Properties.  Vocabulary shared by the statements below.                 *)
(***************************************************************************)
\* the last call carried an "authorization" entry
HasEntry(md) == md.ok /\ Len(md.authorization) > 0

\* the spellings under which the held token reaches verification as issued
HeldSpellings == {Bare(held), Str(S_Bearer, held), Str(S_bearer, held)}

\* the call presented the token that generateToken issued, unaltered
PresentsHeld(md) ==
    /\ held # NoJwt
    /\ HasEntry(md)
    /\ md.authorization[1] \in HeldSpellings

\* the held token has not reached its expiry
Live == held # NoJwt /\ now < held.claims.exp

\* the role given at issuance is admin in some letter case
IssuedAdmin == issue # NoIssue /\ issue.role \in {S_admin, S_Admin}

\* the two classes of methods, as the specification lists them
PublicSet == {M_Login, M_Register}
AdminSet == {M_CreateUser, M_GetUser, M_UpdateUser, M_DeleteUser}

IsCall == last # NoCall

RejectionCodes == {"Unauthenticated", "PermissionDenied"}

\* C1: a call that AuthInterceptor has to reject (no metadata, no token, a
\* token that does not verify, or a role that is not admin on an admin
\* method) ends with a rejection status, without the handler having run and
\* with the table and its id sequence as they were before the call.
C1_RejectedCallsLeaveStore ==
    [][ ( /\ last' # NoCall
          /\ last'.method \notin PublicSet
          /\ \/ ~HasEntry(last'.md)
             \/ ~PresentsHeld(last'.md)
             \/ ~Live
             \/ (last'.method \in AdminSet /\ ~IssuedAdmin) )
        => ( /\ ~last'.handled
             /\ last'.code \in RejectionCodes
             /\ users' = users
             /\ seq' = seq ) ]_vars

\* a call was refused for its role while the table holds rows
C1_Witness ==
    /\ IsCall
    /\ last.code = "PermissionDenied"
    /\ ~last.handled
    /\ users # {}

\* C2: on an admin method the handler runs only for a token that verifies
\* and whose role is admin in some letter case, and it does run for such a
\* token; a token that verifies with any other role gets PermissionDenied.
C2_AdminMethodsNeedAdminRole ==
    (IsCall /\ last.method \in AdminSet) =>
        /\ last.handled => (PresentsHeld(last.md) /\ Live /\ IssuedAdmin)
        /\ (PresentsHeld(last.md) /\ Live /\ ~IssuedAdmin) =>
               (~last.handled /\ last.code = "PermissionDenied")
        /\ (PresentsHeld(last.md) /\ Live /\ IssuedAdmin) => last.handled

\* GetUser was refused to a live, unaltered token of role "user"
C2_Witness ==
    /\ IsCall
    /\ last.method = M_GetUser
    /\ PresentsHeld(last.md) /\ Live
    /\ issue.role = S_user
    /\ ~last.handled
    /\ last.code = "PermissionDenied"

\* C3: a call to Login or Register reaches the handler whatever metadata it
\* carries.
C3_PublicMethodsAlwaysForwarded ==
    (IsCall /\ last.method \in PublicSet) => last.handled

\* Register went through with a token that had expired
C3_Witness ==
    /\ IsCall
    /\ last.method = M_Register
    /\ last.handled
    /\ PresentsHeld(last.md) /\ ~Live

\* C4: outside the public set, a call without an "authorization" entry is
\* rejected Unauthenticated and does not reach the handler.
C4_NoEntryUnauthenticated ==
    (IsCall /\ last.method \notin PublicSet /\ ~HasEntry(last.md)) =>
        (~last.handled /\ last.code = "Unauthenticated")

\* the caller holds a live admin token and calls without it
C4_Witness ==
    /\ IsCall
    /\ last.method = M_DeleteUser
    /\ last.md = MD(<<>>)
    /\ Live /\ IssuedAdmin
    /\ last.code = "Unauthenticated"

\* C5: a method of neither set reaches the handler exactly when the call
\* carries a token that verifies, whatever its role.
C5_DefaultMethodsNeedTokenOnly ==
    (IsCall /\ last.method \notin (PublicSet \cup AdminSet)) =>
        (last.handled <=> (PresentsHeld(last.md) /\ Live))

\* a token with the empty role was let through
C5_Witness ==
    /\ IsCall
    /\ last.method = M_Other
    /\ last.handled
    /\ issue.role = S_empty

\* C6: verification refuses the claims of the held token under another
\* key's signature or none, the held token with a claim altered, and the
\* held token from its expiry on.
C6_VerificationRejects ==
    held # NoJwt =>
        /\ \A f \in Forged(held) : ~ParseWithClaims(Bare(f), jwtKey, now).valid
        /\ \A a \in Altered(held) : ~ParseWithClaims(Bare(a), jwtKey, now).valid
        /\ held.claims.exp < now => ~ParseWithClaims(Bare(held), jwtKey, now).valid

\* a token is past its expiry, and one still live has altered versions
C6_Witness ==
    /\ held # NoJwt
    /\ held.claims.exp < now
    /\ Cardinality(Altered(held)) >= 3

C8_ExpiryIsIssuePlus24h ==
    held # NoJwt => held.claims.exp = issue.at + TokenTTL

\* C8, amended: the expiry claim is the instant of issuance plus 24 hours,
\* truncated to the whole second, and the token verifies exactly at the
\* instants strictly before that expiry.
C8_ExpiryTruncatedAndStrict ==
    held # NoJwt =>
        /\ held.claims.exp = Truncate(issue.at + TokenTTL, Second)
        /\ held.claims.exp <= issue.at + TokenTTL
        /\ held.claims.exp > issue.at + TokenTTL - Second
        /\ ParseWithClaims(Bare(held), jwtKey, now).valid <=> now < held.claims.exp

\* a token issued off the second is refused at its expiry instant, which is
\* less than 24 hours after it was issued
C8_Witness ==
    /\ held # NoJwt
    /\ issue.at % Second # 0
    /\ now = held.claims.exp
    /\ now < issue.at + TokenTTL
    /\ ~ParseWithClaims(Bare(held), jwtKey, now).valid

\* C9: on an admin method the held token is served or refused by the role it
\* was issued with and its expiry alone, whatever the table holds for its
\* email by then.
C9_TokenRoleOutlivesStore ==
    (IsCall /\ last.method \in AdminSet /\ PresentsHeld(last.md)) =>
        /\ last.handled <=> (Live /\ IssuedAdmin)
        /\ (Live /\ ~IssuedAdmin) => last.code = "PermissionDenied"

\* an admin token is served although its email was deleted and registered
\* again with role "user"
C9_Witness ==
    /\ IsCall
    /\ last.method \in AdminSet
    /\ PresentsHeld(last.md)
    /\ last.handled
    /\ IssuedAdmin
    /\ \E r \in users : r.email = issue.email /\ r.role = S_user

\* the email has a row with a digest that is not the digest of the password
WrongPassword(email, password) ==
    \E r \in users :
        r.email = email /\ r.password # NULL /\ r.password # hashPassword(password)

\* C10, as stated: a Login for an email without a row and a Login with a
\* wrong password both fail Unauthenticated, with the same message.
C10_LoginFailuresAlike ==
    ( /\ IsCall /\ last.method = M_Login /\ last.handled
      /\ ~\E r \in users : r.email = last.req.email ) =>
        /\ last.code = "Unauthenticated"
        /\ \A email \in Emails, password \in Passwords :
              WrongPassword(email, password) =>
                LET other == Login([email |-> email, password |-> password], TRUE, now)
                IN  other.code = "Unauthenticated" /\ other.msg = last.msg

(***************************************************************************)
(* Properties of the handlers and of the table.                            *)
(***************************************************************************)
\* the role Register stores for the role field of a request
StoredRole(role) == IF role = S_empty THEN S_user ELSE role

CreationSet == {M_Register, M_CreateUser}

C13_IdsNeverReused ==
    [][ /\ seq' >= seq
        /\ \A r \in users' : r.id >= 1 /\ r.id <= seq'
        /\ \A r \in users', o \in users' : r.id = o.id => r = o
        /\ \A r \in users' :
              (~\E o \in users : o.id = r.id) =>
                  /\ r.id > seq
                  /\ last'.method \in CreationSet
                  /\ last'.code = "OK"
                  /\ last'.resp.id = r.id
        /\ \A o \in users :
              \/ ~\E r \in users' : r.id = o.id
              \/ \E r \in users' : /\ r.id = o.id
                                    /\ r.password = o.password
                                    /\ r.role = o.role
        /\ Cardinality(users') <= Cardinality(users) + 1 ]_vars

\* a row was created after the row of id 1 was deleted, and its id is 2
C13_Witness ==
    /\ IsCall
    /\ last.method \in CreationSet
    /\ last.code = "OK"
    /\ last.resp.id = 2
    /\ \E r \in users : r.id = 2
    /\ ~\E r \in users : r.id = 1

\* the strings a role field can hold in the model
RoleStrings == Seq(UpperLetters \cup LowerLetters)

\* C14: every row has a role that is a string, never null; the row a
\* successful Register adds holds the given role or "user", and the row a
\* successful CreateUser adds holds the role field of the request as it came,
\* the empty string included.
C14_RoleAlwaysPresent ==
    /\ \A r \in users : r.role # NullText /\ r.role \in RoleStrings
    /\ (IsCall /\ last.method \in CreationSet /\ last.code = "OK") =>
          \E r \in users :
              /\ r.id = last.resp.id
              /\ r.role = last.resp.role
              /\ r.role = IF last.method = M_Register
                          THEN StoredRole(last.req.role)
                          ELSE last.req.role

\* a row made by CreateUser without a role stands next to one made by
\* Register without a role
C14_Witness ==
    /\ \E r \in users : r.password = NULL /\ r.role = S_empty
    /\ \E r \in users : r.password # NULL /\ r.role = S_user

\* the call that just returned met a store that did not answer
StoreFailed(call) == call.code \in {"Unknown", "Internal"} /\ call.msg[Len(call.msg)] = E_conn

\* C15: GetUser leaves the table and its sequence as they were; when the
\* store answers the lookup, it returns NotFound if no row has the id and
\* otherwise the id, name, email and role of the row that has it.
C15_GetUserReadsTheRow ==
    [][ (last'.method = M_GetUser /\ last'.handled) =>
          /\ users' = users
          /\ seq' = seq
          /\ ~StoreFailed(last') =>
                IF ~\E r \in users : r.id = last'.req.id
                THEN last'.code = "NotFound" /\ last'.resp = NoResp
                ELSE /\ last'.code = "OK"
                     /\ \E r \in users : /\ r.id = last'.req.id
                                         /\ last'.resp.id = r.id
                                         /\ last'.resp.name = r.name
                                         /\ last'.resp.email = r.email
                                         /\ last'.resp.role = r.role ]_vars

\* GetUser did not find an id that the sequence has handed out, while other
\* rows stand
C15_Witness ==
    /\ IsCall
    /\ last.method = M_GetUser
    /\ last.code = "NotFound"
    /\ last.req.id <= seq
    /\ users # {}

\* the UPDATE would give the row of the id the email of another row
EmailTaken(id, email) ==
    /\ \E r \in users : r.id = id
    /\ \E o \in users : o.id # id /\ o.email = email

\* C16: an UpdateUser that meets no store error (the store answers, and the
\* new email is not that of another row) succeeds with a response that
\* carries the id, name and email of the request, whether or not a row has
\* the id; only such an update succeeds; and when no row has the id the
\* rows are left as they were.
C16_UpdateEchoesRequest ==
    [][ (last'.method = M_UpdateUser /\ last'.handled) =>
          /\ last'.code = "OK" <=>
                (~StoreFailed(last') /\ ~EmailTaken(last'.req.id, last'.req.email))
          /\ last'.code = "OK" =>
                /\ last'.resp.id = last'.req.id
                /\ last'.resp.name = last'.req.name
                /\ last'.resp.email = last'.req.email
          /\ (~\E r \in users : r.id = last'.req.id) => users' = users
          /\ seq' = seq ]_vars

\* an update of an id without a row succeeded and changed nothing
C16_Witness ==
    /\ IsCall
    /\ last.method = M_UpdateUser
    /\ last.code = "OK"
    /\ users # {}
    /\ ~\E r \in users : r.id = last.req.id
    /\ ~\E r \in users : r.name = last.req.name \/ r.email = last.req.email

\* C17: a successful UpdateUser leaves every row of another id as it was,
\* adds and removes no row, and gives the row of its id the name and email
\* of the request while the id, the role and the digest of that row stay.
C17_UpdateWritesNameAndEmailOnly ==
    [][ (last'.method = M_UpdateUser /\ last'.code = "OK") =>
          /\ \A o \in users : o.id # last'.req.id => o \in users'
          /\ \A r \in users' : r.id # last'.req.id => r \in users
          /\ \A r \in users' : r.id = last'.req.id => \E o \in users : o.id = r.id
          /\ \A o \in users :
                o.id = last'.req.id =>
                    \E r \in users' : /\ r.id = o.id
                                       /\ r.role = o.role
                                       /\ r.password = o.password
                                       /\ r.name = last'.req.name
                                       /\ r.email = last'.req.email
          /\ Cardinality(users') = Cardinality(users) ]_vars

\* the row of an admin account was renamed next to another row, and is
\* still an admin account with its digest
C17_Witness ==
    /\ IsCall
    /\ last.method = M_UpdateUser
    /\ last.code = "OK"
    /\ \E r \in users : /\ r.id = last.req.id
                         /\ r.name = last.req.name
                         /\ r.email = last.req.email
                         /\ r.role = S_Admin
                         /\ r.password # NULL
    /\ \E o \in users : o.id # last.req.id

\* C18: a successful DeleteUser removes the row of its id and no other row;
\* and an id the sequence has handed out that has no row never has a row
\* again, whatever call comes next, so that a GetUser for it that the store
\* answers returns NotFound from then on.
C18_DeletedStaysDeleted ==
    [][ /\ \A id \in Ids :
              (last'.method = M_DeleteUser /\ last'.code = "OK" /\ last'.req.id = id) =>
                  /\ users' = {r \in users : r.id # id}
                  /\ GetUser([id |-> id], TRUE)'.code = "NotFound"
        /\ \A id \in Ids :
              (id <= seq /\ ~\E r \in users : r.id = id) =>
                  /\ ~\E r \in users' : r.id = id
                  /\ GetUser([id |-> id], TRUE)'.code = "NotFound" ]_vars

\* after the row of id 1 was deleted and another row created, GetUser does
\* not find id 1
C18_Witness ==
    /\ IsCall
    /\ last.method = M_GetUser
    /\ last.req.id = 1
    /\ last.code = "NotFound"
    /\ \E r \in users : r.id = 2

\* what a GetUser that the store answers returns for the id
Read(id) == GetUser([id |-> id], TRUE)

\* the response names this id, name and email
Shows(resp, id, name, email) ==
    /\ resp.kind = "user"
    /\ resp.id = id
    /\ resp.name = name
    /\ resp.email = email

\* C19: right after a successful Register or CreateUser, GetUser of the id
\* in the response returns that id with the name and email of the request;
\* right after a successful UpdateUser of an id that has a row, GetUser of
\* the id returns it with the name and email of that request; and any other
\* call that is not a successful DeleteUser of the id leaves what GetUser
\* returns for the id as it was.
C19_ReadAfterWrite ==
    [][ \A id \in Ids :
          /\ ( /\ last'.code = "OK"
               /\ \/ last'.method \in CreationSet /\ last'.resp.id = id
                  \/ /\ last'.method = M_UpdateUser
                     /\ last'.req.id = id
                     /\ \E r \in users : r.id = id ) =>
                 /\ Read(id)'.code = "OK"
                 /\ Shows(Read(id)'.resp, id, last'.req.name, last'.req.email)
          /\ ( /\ \E r \in users : r.id = id
               /\ ~( /\ last'.method \in {M_UpdateUser, M_DeleteUser}
                     /\ last'.code = "OK"
                     /\ last'.req.id = id ) ) =>
                 /\ Read(id)'.code = "OK"
                 /\ Read(id)'.resp = Read(id).resp ]_vars

\* a row was given a new name and email by UpdateUser, and GetUser returns
\* them under the id of the row
C19_Witness ==
    /\ IsCall
    /\ last.method = M_UpdateUser
    /\ last.code = "OK"
    /\ \E r \in users : r.id = last.req.id
    /\ Read(last.req.id).code = "OK"
    /\ Shows(Read(last.req.id).resp, last.req.id, last.req.name, last.req.email)
    /\ \E o \in users : o.id # last.req.id /\ o.name # last.req.name

\* the response holds a token signed with the key of the server that names
\* this email and a role, and expires at an instant after this one
CarriesToken(resp, email, t) ==
    /\ resp.kind = "token"
    /\ resp.token.alg = "HS256"
    /\ resp.token.sig = HMAC(jwtKey, <<"HS256", resp.token.claims>>)
    /\ resp.token.claims.email = email
    /\ resp.token.claims.role \in RoleStrings
    /\ resp.token.claims.exp > t

\* C20, as stated: a successful Login and a successful Register each return
\* a signed token with the email, the role and an expiry instant.
C20_TokenAtLoginAndRegister ==
    (IsCall /\ last.method \in {M_Login, M_Register} /\ last.code = "OK") =>
        CarriesToken(last.resp, last.req.email, now)

\* C20, amended: a successful Login returns a signed token with the email of
\* the request, the role of the row of that email and an expiry instant, and
\* the caller holds it from then on; a successful Register returns the row
\* it created and no token, and leaves the caller with what it held.
C20_TokenAtLoginOnly ==
    [][ /\ (last'.method = M_Login /\ last'.code = "OK") =>
              /\ CarriesToken(last'.resp, last'.req.email, now')
              /\ \E r \in users : /\ r.email = last'.req.email
                                  /\ last'.resp.token.claims.role = r.role
              /\ held' = last'.resp.token
        /\ (last'.method = M_Register /\ last'.code = "OK") =>
              /\ last'.resp.kind = "user"
              /\ last'.resp.email = last'.req.email
              /\ held' = held ]_vars

\* an account registered as Admin has logged in and holds a token of that
\* role
C20_Witness ==
    /\ IsCall
    /\ last.method = M_Login
    /\ last.code = "OK"
    /\ CarriesToken(last.resp, last.req.email, now)
    /\ held.claims.role = S_Admin
    /\ \E r \in users : r.email = last.req.email /\ r.role = S_Admin

(***************************************************************************)
(* Store failures, the order of the interceptor's tests, and what follows  *)
(* from the service as a whole.                                            *)
(***************************************************************************)
\* the requests of each handler
RegisterRequests ==
    [name : Names, email : Emails, password : RegisterPasswords, role : ReqRoles]
LoginRequests == [email : Emails, password : Passwords]
CreateUserRequests == [name : Names, email : Emails, role : ReqRoles]
UpdateUserRequests == [id : Ids, name : Names, email : Emails]
DeleteUserRequests == [id : Ids]

\* the handler returned this failure and left the rows and the sequence as
\* they were
FailsWith(out, code, msg) ==
    /\ out.code = code
    /\ out.msg = msg
    /\ out.resp = NoResp
    /\ out.users = users
    /\ out.seq = seq

\* with a store that does not answer, each handler returns the failure of
\* its class and changes nothing
StoreDownClassified ==
    /\ \A req \in RegisterRequests :
          FailsWith(Register(req, FALSE), "Internal", <<"cannot create user: ", E_conn>>)
    /\ \A req \in CreateUserRequests :
          FailsWith(CreateUser(req, FALSE), "Internal", <<"failed to create user: ", E_conn>>)
    /\ \A req \in LoginRequests :
          FailsWith(Login(req, FALSE, now), "Unauthenticated", <<"user not found">>)
    /\ \A req \in UpdateUserRequests :
          FailsWith(UpdateUser(req, FALSE), "Unknown", <<E_conn>>)
    /\ \A req \in DeleteUserRequests :
          FailsWith(DeleteUser(req, FALSE), "Unknown", <<E_conn>>)

\* the classes of the failures the calls return, the rows left as they were
\* by every failed call
FailuresClassified ==
    /\ last'.method \in CreationSet =>
          /\ last'.code \in {"OK", "Internal"}
          /\ (\E r \in users : r.email = last'.req.email) =>
                last'.code = "Internal"
          /\ last'.code = "Internal" =>
                /\ last'.msg[2] \in {E_conn, E_dup}
                /\ last'.resp = NoResp
                /\ users' = users
    /\ last'.method = M_Login =>
          /\ last'.code \in {"OK", "Unauthenticated"}
          /\ (~\E r \in users : r.email = last'.req.email) =>
                last'.code = "Unauthenticated"
          /\ users' = users
          /\ seq' = seq
    /\ last'.method \in {M_UpdateUser, M_DeleteUser} =>
          /\ last'.code \in {"OK", "Unknown"}
          /\ ( /\ last'.method = M_UpdateUser
               /\ EmailTaken(last'.req.id, last'.req.email) ) =>
                last'.code = "Unknown"
          /\ last'.code = "Unknown" =>
                /\ last'.msg \in {<<E_conn>>, <<E_dup>>}
                /\ last'.resp = NoResp
                /\ users' = users
                /\ seq' = seq

\* C21, as stated: a store error is returned Internal by Register and
\* CreateUser, Unauthenticated by Login and unclassified by UpdateUser and
\* DeleteUser, and in each case the store, its rows and its id sequence, is
\* left as it was.
C21_StoreErrorsLeaveStore ==
    [][ /\ FailuresClassified
        /\ (last'.method \in CreationSet /\ last'.code = "Internal") => seq' = seq ]_vars

\* C21, amended: the same classes, and in each case the rows of the store
\* are left as they were; the id sequence too, except that a Register or
\* CreateUser refused for an email that has a row uses up one value of it.
C21_StoreErrorsLeaveRows ==
    /\ []StoreDownClassified
    /\ [][ /\ FailuresClassified
           /\ (last'.method \in CreationSet /\ last'.code = "Internal") =>
                 seq' = IF last'.msg[2] = E_dup THEN seq + 1 ELSE seq ]_vars

\* an UpdateUser that would have given a row the email of another row was
\* returned the error of the store as it came
C21_Witness ==
    /\ IsCall
    /\ last.method = M_UpdateUser
    /\ last.code = "Unknown"
    /\ last.msg = <<E_dup>>
    /\ Cardinality(users) = 2

\* C22: on an admin method a call whose "authorization" entry is not the
\* held token as issued and before its expiry (it is malformed, signed with
\* another key or not at all, altered, or expired) is rejected
\* Unauthenticated "invalid token" before the handler, never
\* PermissionDenied, whatever role it names.
C22_AuthenticatesBeforeAuthorizing ==
    ( /\ IsCall
      /\ last.method \in AdminSet
      /\ HasEntry(last.md)
      /\ ~(PresentsHeld(last.md) /\ Live) ) =>
        /\ ~last.handled
        /\ last.code = "Unauthenticated"
        /\ last.msg = <<"invalid token">>

\* an expired token of role "user" was refused as invalid on an admin method
C22_Witness ==
    /\ IsCall
    /\ last.method \in AdminSet
    /\ PresentsHeld(last.md)
    /\ ~Live
    /\ issue.role = S_user
    /\ last.code = "Unauthenticated"
    /\ last.msg = <<"invalid token">>

\* the "authorization" entry has no value, or its value is the empty string
NoValue(md) == md.ok /\ Len(md.authorization) = 0
EmptyValue(md) == HasEntry(md) /\ md.authorization[1] = Str(<<>>, NoJwt)

RejectedWith(call, code, msg) ==
    ~call.handled /\ call.code = code /\ call.msg = <<msg>>

\* C23 as stated: on a non-public method, an "authorization" entry that is
\* present but empty (no value, or an empty value) is rejected
\* Unauthenticated "token missing" like an absent entry, and a call without
\* metadata is rejected Unauthenticated "metadata missing".
C23_EmptyEntryIsTokenMissing ==
    (IsCall /\ last.method \notin PublicSet) =>
        /\ (NoValue(last.md) \/ EmptyValue(last.md))
               => RejectedWith(last, "Unauthenticated", "token missing")
        /\ ~last.md.ok => RejectedWith(last, "Unauthenticated", "metadata missing")

\* C23, amended: on a non-public method, an "authorization" entry without
\* a value is rejected Unauthenticated "token missing" like an absent
\* entry, an entry whose value is the empty string is rejected
\* Unauthenticated "invalid token", and a call without metadata is rejected
\* Unauthenticated "metadata missing".
C23_EmptyEntryRejected ==
    (IsCall /\ last.method \notin PublicSet) =>
        /\ NoValue(last.md) => RejectedWith(last, "Unauthenticated", "token missing")
        /\ EmptyValue(last.md) => RejectedWith(last, "Unauthenticated", "invalid token")
        /\ ~last.md.ok => RejectedWith(last, "Unauthenticated", "metadata missing")

\* an empty value was presented on a non-public method and refused
C23_Witness ==
    /\ IsCall
    /\ last.method \notin PublicSet
    /\ EmptyValue(last.md)
    /\ last.code = "Unauthenticated"

\* letter-casings of the prefix
S_bEaReR == <<"b","E","a","R","e","R"," ">>
PrefixCasings == {S_Bearer, S_bearer, S_BEARER, S_bEaReR}

\* token strings a caller can hold: the token issued, that token altered,
\* re-signed or unsigned, and text that is no token
TokenStrings ==
    {NoJwt} \cup (IF held = NoJwt THEN {}
                  ELSE {held} \cup Altered(held) \cup Forged(held))
TokenTexts == {Str(<<>>, T) : T \in TokenStrings} \cup {Str(<<"x">>, NoJwt)}

\* C24: for every token string T and every letter-casing of the prefix
\* "Bearer ", AuthInterceptor decides the credential made of the prefix
\* and T as it decides the bare credential T, on every method; and the
\* bare credential is verified as given.
C24_BearerPrefixOptional ==
    \A c \in TokenTexts, method \in Methods :
        /\ \A prefix \in PrefixCasings :
              AuthInterceptor(method, MD(<<Str(prefix \o c.pre, c.jwt)>>), now)
                = AuthInterceptor(method, MD(<<c>>), now)
        /\ StripBearer(c) = c
        /\ (method \notin PublicSet) =>
              ( AuthInterceptor(method, MD(<<c>>), now).forward
                  => ParseWithClaims(c, jwtKey, now).valid )

\* the held admin token was presented behind "bearer " on an admin method
\* and the call was forwarded
C24_Witness ==
    /\ IsCall
    /\ last.method \in AdminSet
    /\ HasEntry(last.md)
    /\ held # NoJwt
    /\ last.md.authorization[1] = Str(S_bearer, held)
    /\ last.handled

\* C25: a call of AuthInterceptor, on every path, leaves the table, its id
\* sequence and the token issued as they were; a call it accepts reaches
\* the handler once, with the context and the request of the call and
\* nothing added to them, and the handler's answer is what the caller
\* gets; a call it refuses does not reach the handler.  The method sets and
\* the key are the ones the package declares.
C25_PureGate ==
    [][ (last' # NoCall) =>
          /\ users' = users
          /\ seq' = seq
          /\ held' = held
          /\ issue' = issue
          /\ now' = now
          /\ publicMethods = PublicSet
          /\ adminMethods = AdminSet
          /\ IF last'.handled
             THEN /\ last'.code = "OK"
                  /\ last'.resp = [kind |-> "received",
                                   ctx |-> last'.md, req |-> last'.req]
             ELSE /\ last'.code \in RejectionCodes
                  /\ last'.resp = NoResp ]_vars

\* the held token was accepted on an admin method and the handler was
\* called with the metadata of the call
C25_Witness ==
    /\ IsCall
    /\ last.method \in AdminSet
    /\ PresentsHeld(last.md)
    /\ last.handled
    /\ last.resp.ctx = last.md

(***************************************************************************)
(* Calls in flight.  Each goroutine serves one call: the call arrives, the *)
(* handler issues its one statement, which the store executes as a whole,  *)
(* and the handler returns what the statement gave.  Between the arrival   *)
(* and the statement of one call the statements of other calls execute.    *)
(***************************************************************************)
Running(method, req) == [pc |-> "running", method |-> method, req |-> req]
Returned(method, req, out) ==
    [pc |-> "done", method |-> method, req |-> req,
     code |-> out.code, msg |-> out.msg]

\* the requests of the calls in flight
InFlightRequests(method) ==
    CASE method = M_Register ->
           {r \in RegisterRequests : r.name = "Ann" /\ r.role = S_empty}
      [] method = M_CreateUser ->
           {r \in CreateUserRequests : r.name = "Ann" /\ r.role = S_empty}
      [] method = M_UpdateUser ->
           {r \in UpdateUserRequests : r.name = "Bob"}
      [] method = M_DeleteUser -> DeleteUserRequests

\* the handler the service calls for a method
Serve(method, req, up) ==
    CASE method = M_Register -> Register(req, up)
      [] method = M_CreateUser -> CreateUser(req, up)
      [] method = M_UpdateUser -> UpdateUser(req, up)
      [] method = M_DeleteUser -> DeleteUser(req, up)

\* a call arrives and its handler starts
Arrive(g) ==
    /\ calls[g] = Idle
    /\ \E method \in {M_Register, M_CreateUser, M_UpdateUser, M_DeleteUser} :
         \E req \in InFlightRequests(method) :
            calls' = [calls EXCEPT ![g] = Running(method, req)]
    /\ UNCHANGED <<users, seq, now, held, issue, last, createdOnly>>

\* the handler's statement executes and the handler returns
Statement(g) ==
    /\ calls[g].pc = "running"
    /\ calls[g].method \in {M_Register, M_CreateUser} => seq < MaxSeq
    /\ \E up \in BOOLEAN :
         LET out == Serve(calls[g].method, calls[g].req, up)
         IN  /\ users' = out.users
             /\ seq' = out.seq
             /\ calls' = [calls EXCEPT ![g] = Returned(calls[g].method, calls[g].req, out)]
    /\ UNCHANGED <<now, held, issue, last, createdOnly>>

NextConcurrent ==
    \/ \E g \in Goroutines : Arrive(g)
    \/ \E g \in Goroutines : Statement(g)

SpecConcurrent == Init /\ [][NextConcurrent]_vars

\* the statement of this call did not reach the store
Unreached(call) ==
    call.code # "OK" /\ call.msg[Len(call.msg)] = E_conn

\* the calls for this email whose INSERT reached the store
Creations(email) ==
    {g \in Goroutines : /\ calls[g].pc = "done"
                        /\ calls[g].method \in CreationSet
                        /\ calls[g].req.email = email
                        /\ ~Unreached(calls[g])}

\* an UPDATE or DELETE of a call in flight has reached the store
RowsTouched ==
    \E g \in Goroutines : /\ calls[g].pc = "done"
                           /\ calls[g].method \notin CreationSet
                           /\ ~Unreached(calls[g])

RowsDistinct(rows) ==
    \A r \in rows, o \in rows : (r.email = o.email \/ r.id = o.id) => r = o

AdminSpellings == {S_admin, S_Admin}

\* C27: Register is served to a caller without a credential and stores the
\* role of the request as it is when it is not empty; a Login that succeeds
\* for an email whose row has the role admin returns a token that
\* AuthInterceptor forwards on every admin method, then and at every
\* instant before its expiry; so a caller that starts with no credential
\* gets admin calls served (the witness).
C27_RegisterGrantsAdmin ==
    [][ /\ \A role \in AdminSpellings, email \in Emails :
              LET out == Register([name |-> "Ann", email |-> email,
                                   password |-> "pw1", role |-> role], TRUE)
              IN  /\ AuthInterceptor(M_Register, MD(<<>>), now).forward
                  /\ (~\E r \in users : r.email = email) =>
                        /\ out.code = "OK"
                        /\ \E r \in out.users : r.email = email /\ r.role = role
        /\ ( /\ last' # NoCall
             /\ last'.method = M_Register
             /\ last'.code = "OK"
             /\ last'.req.role # S_empty ) =>
               \E r \in users' : /\ r.email = last'.req.email
                                  /\ r.role = last'.req.role
                                  /\ r.id = last'.resp.id
        /\ ( /\ last' # NoCall
             /\ last'.method = M_Login
             /\ last'.code = "OK"
             /\ \E r \in users : /\ r.email = last'.req.email
                                  /\ r.role \in AdminSpellings ) =>
               /\ held' = last'.resp.token
               /\ \A method \in AdminSet, t \in Instants :
                     (t >= now /\ t < held'.claims.exp) =>
                        AuthInterceptor(method, MD(<<Str(S_Bearer, held')>>), t).forward
        /\ ( /\ last' # NoCall
             /\ last'.method \in AdminSet
             /\ last'.md = MD(<<Str(S_Bearer, held)>>)
             /\ held # NoJwt
             /\ now < held.claims.exp
             /\ issue.role \in AdminSpellings ) => last'.handled ]_vars

\* starting without a credential, the caller registered an admin account,
\* logged in, and had an admin method served with the token: the row of
\* the account stands with its digest
C27_Witness ==
    /\ IsCall
    /\ last.method \in AdminSet
    /\ last.handled
    /\ last.md = MD(<<Str(S_Bearer, held)>>)
    /\ \E r \in users : /\ r.email = issue.email
                         /\ r.role = S_Admin
                         /\ r.password = hashPassword("pw1")

\* no row has the email the held token names
HolderDeleted == held # NoJwt /\ ~\E r \in users : r.email = held.claims.email

\* C28: when DeleteUser removes the row whose email the held token names,
\* the token stays as it is and AuthInterceptor forwards it on every
\* non-public method its role allows at every instant before its expiry;
\* and every call made with it while the email has no row is served as if
\* the row were there: on an admin method exactly when the token is not
\* expired and its role is admin.
C28_DeleteDoesNotRevoke ==
    /\ []( ( /\ IsCall
             /\ last.method \in AdminSet
             /\ PresentsHeld(last.md)
             /\ HolderDeleted ) =>
               (last.handled <=> (Live /\ IssuedAdmin)) )
    /\ [][ ( /\ last' # NoCall
             /\ last'.method = M_DeleteUser
             /\ last'.code = "OK"
             /\ held # NoJwt
             /\ \E r \in users : r.email = held.claims.email
             /\ ~\E r \in users' : r.email = held.claims.email ) =>
               /\ held' = held
               /\ \A method \in AdminSet \cup {M_Other}, t \in Instants :
                     (t >= now /\ t < held.claims.exp) =>
                        ( AuthInterceptor(method, MD(<<Str(S_Bearer, held)>>), t).forward
                            <=> (method \in AdminSet => IssuedAdmin) ) ]_vars

\* after the row of the token's email was deleted and nothing was
\* registered in its place, GetUser was served with the token
C28_Witness ==
    /\ IsCall
    /\ last.method = M_GetUser
    /\ PresentsHeld(last.md)
    /\ last.handled
    /\ HolderDeleted
    /\ seq >= 1

(***************************************************************************)
(* The handlers with the history of the emails: which emails CreateUser    *)
(* gave to a row, until Register is next called with them successfully.    *)
(***************************************************************************)
RegisterAccount ==
    \E req \in RegisterRequests, up \in BOOLEAN :
        /\ seq < MaxSeq
        /\ req.name = "Ann"
        /\ Tracked(M_Register, NoMD, req, Register(req, up))
        /\ UNCHANGED <<held, issue>>

CreateUserAccount ==
    \E req \in CreateUserRequests, up \in BOOLEAN :
        /\ seq < MaxSeq
        /\ req.name = "Ann"
        /\ Tracked(M_CreateUser, NoMD, req, CreateUser(req, up))
        /\ UNCHANGED <<held, issue>>

UpdateUserAccount ==
    \E req \in UpdateUserRequests, up \in BOOLEAN :
        /\ req.name = "Ann"
        /\ Tracked(M_UpdateUser, NoMD, req, UpdateUser(req, up))
        /\ UNCHANGED <<held, issue>>

DeleteUserAccount ==
    \E req \in DeleteUserRequests, up \in BOOLEAN :
        /\ Tracked(M_DeleteUser, NoMD, req, DeleteUser(req, up))
        /\ UNCHANGED <<held, issue>>

LoginAccount ==
    \E req \in LoginRequests, up \in BOOLEAN :
        /\ Tracked(M_Login, NoMD, req, Login(req, up, now))
        /\ UNCHANGED <<held, issue>>

NextAccounts ==
    \/ RegisterAccount
    \/ CreateUserAccount
    \/ UpdateUserAccount
    \/ DeleteUserAccount
    \/ LoginAccount

SpecAccounts == Init /\ [][NextAccounts]_vars

\* a row with a digest carries the email
HasDigest(email) == \E r \in users : r.email = email /\ r.password # NULL

\* Login with this email fails Unauthenticated whatever the password
LoginRefused(email) ==
    \A password \in Passwords, up \in BOOLEAN :
        LET out == Login([email |-> email, password |-> password], up, now)
        IN  out.code = "Unauthenticated" /\ out.resp = NoResp

\* C29 as stated: Login with an email that CreateUser gave to a row fails
\* Unauthenticated for every password, in every state until the email is
\* registered through Register (which a standing row of the email rules
\* out).
C29_NoLoginUntilRegistered ==
    /\ \A email \in createdOnly : LoginRefused(email)
    /\ (IsCall /\ last.method = M_Login /\ last.req.email \in createdOnly) =>
          last.code = "Unauthenticated"

\* C29, amended: a row created by CreateUser has no digest and never gets
\* one; Login with the email of a row without a digest fails
\* Unauthenticated "user not found" for every password; and an email
\* that CreateUser gave to a row can log in again only once it is carried
\* by a row with a digest, which happens when Register succeeds for it
\* or when UpdateUser gives the email to a registered row, after the row
\* without digest was deleted or given another email.
C29_NoLoginWithoutDigest ==
    /\ [](\A r \in users : r.password = NULL =>
             /\ LoginRefused(r.email)
             /\ \A password \in Passwords :
                   Login([email |-> r.email, password |-> password], TRUE, now).msg
                     = <<"user not found">>)
    /\ [](\A email \in createdOnly : ~HasDigest(email) => LoginRefused(email))
    /\ [][ /\ \A o \in users, r \in users' : r.id = o.id => r.password = o.password
           /\ \A r \in users' :
                 (~\E o \in users : o.id = r.id) =>
                    (r.password = NULL <=> last'.method = M_CreateUser)
           /\ \A email \in createdOnly :
                 (~HasDigest(email) /\ HasDigest(email)') =>
                    /\ last'.code = "OK"
                    /\ last'.req.email = email
                    /\ ~\E r \in users : r.email = email
                    /\ \/ last'.method = M_Register
                       \/ /\ last'.method = M_UpdateUser
                          /\ \E o \in users : /\ o.id = last'.req.id
                                               /\ o.password # NULL ]_vars

\* Login was refused with the right password of another account for an
\* email whose row CreateUser made
C29_Witness ==
    /\ IsCall
    /\ last.method = M_Login
    /\ last.code = "Unauthenticated"
    /\ last.msg = <<"user not found">>
    /\ last.req.password = "pw1"
    /\ last.req.email \in createdOnly
    /\ \E r \in users : r.email = last.req.email /\ r.password = NULL
    /\ \E r \in users : r.password = hashPassword("pw1")

\* C30: when the store answers, DeleteUser returns the message "User
\* deleted" whether or not the id has a row; for an id without a row it
\* leaves the table and the id sequence as they were; and a second
\* DeleteUser for the same id, right after, returns the same response and
\* leaves the table the first call left.
C30_DeleteIdempotent ==
    [][ \A id \in Ids :
          ( /\ last'.method = M_DeleteUser
            /\ last'.req.id = id
            /\ ~StoreFailed(last') ) =>
              /\ last'.code = "OK"
              /\ last'.resp = [kind |-> "message", message |-> "User deleted"]
              /\ users' = {r \in users : r.id # id}
              /\ seq' = seq
              /\ (~\E r \in users : r.id = id) => users' = users
              /\ DeleteUser([id |-> id], TRUE)'.code = last'.code
              /\ DeleteUser([id |-> id], TRUE)'.resp = last'.resp
              /\ DeleteUser([id |-> id], TRUE)'.users = users'
              /\ DeleteUser([id |-> id], TRUE)'.seq = seq' ]_vars

\* DeleteUser answered "User deleted" for an id the sequence has not handed
\* out yet, with a row in the table
C30_Witness ==
    /\ IsCall
    /\ last.method = M_DeleteUser
    /\ last.code = "OK"
    /\ last.resp = [kind |-> "message", message |-> "User deleted"]
    /\ last.req.id > seq
    /\ users # {}

====
